---- MODULE Spec2Model ----
(***************************************************************************)
(* Model of the TurnstilePatch browser extension:                          *)
(*   - script.js   : the service worker (webRequest listeners, "the Gate") *)
(*   - content.js  : the injected page script ("the Injector")             *)
(*   - part_000    : widget / fetch patch script                           *)
(*   - part_001    : navigator clean-up and DOMContentLoaded widget stub   *)
(***************************************************************************)
EXTENDS Integers, Sequences, FiniteSets, TLC

(***************************************************************************)
(* Bounds of the model.                                                    *)
(***************************************************************************)
MaxUrlLen == 3
MaxHeaders == 2
MaxInjections == 2    \* how often each script is run in one page
MaxTime == 2000       \* last clock reading (ms since the page was created)
MaxRenders == 2       \* widget render calls per page
MaxMouseTime == 220   \* last clock reading at which a pointer event is dispatched

(***************************************************************************)
(* Strings.  A URL is a sequence of text fragments; String.prototype       *)
(* .includes is the contiguous sub-sequence search.  The fragments are     *)
(* chosen so that every pattern of the source is a sequence of fragments   *)
(* and no pattern occurs inside a fragment or across a fragment boundary   *)
(* other than as listed.                                                   *)
(***************************************************************************)
Fragments ==
    { "challenges", ".cloudflare.com", "turnstile", "/v2/",
      "/cdn-cgi/challenge-platform/", "example.com/" }

PatChallengesHost == << "challenges", ".cloudflare.com" >>
PatTurnstile      == << "turnstile" >>
PatChallengePlatform == << "/cdn-cgi/challenge-platform/" >>
PatTurnstileV2    == << "turnstile", "/v2/" >>
PatChallenges     == << "challenges" >>

RECURSIVE SeqsUpTo(_, _)
SeqsUpTo(S, n) ==
    IF n = 0 THEN { << >> }
    ELSE LET shorter == SeqsUpTo(S, n - 1)
         IN  shorter \cup { Append(s, x) : s \in shorter, x \in S }

\* s.includes(pat) for strings s, pat
Includes(s, pat) ==
    \E i \in 0 .. (Len(s) - Len(pat)) :
        \A j \in 1 .. Len(pat) : s[i + j] = pat[j]

IsPrefix(p, s) ==
    /\ Len(p) <= Len(s)
    /\ \A i \in 1 .. Len(p) : s[i] = p[i]

\* JavaScript values a `url` field or a fetch argument can hold
StrVal(s)  == [type |-> "string", text |-> s]
UndefVal   == [type |-> "undefined", text |-> << >>]
NumberVal  == [type |-> "number", text |-> << >>]
UrlObjVal(s) == [type |-> "URL", text |-> s]
RequestVal(s) == [type |-> "Request", text |-> s]

UrlStrings == SeqsUpTo(Fragments, MaxUrlLen)

(***************************************************************************)
(* Headers                                                                 *)
(***************************************************************************)
Hdr(n, v) == [name |-> n, value |-> v]

PageHeaders == { Hdr("User-Agent", "Mozilla/5.0"), Hdr("Sec-Fetch-Dest", "empty") }

XPatched == << Hdr("X-Patched", "true") >>

NavigationHeaders ==
    << Hdr("Sec-Fetch-Dest", "document"),
       Hdr("Sec-Fetch-Mode", "navigate"),
       Hdr("Sec-Fetch-Site", "same-origin"),
       Hdr("Sec-Fetch-User", "?1"),
       Hdr("Upgrade-Insecure-Requests", "1") >>

\* details.requestHeaders || []
HeadersOrEmpty(details) ==
    IF details.hasHeaders THEN details.requestHeaders ELSE << >>

(***************************************************************************)
(* Listener results (chrome.webRequest BlockingResponse)                   *)
(***************************************************************************)
NoUrl == [scheme |-> "", mediatype |-> "", data |-> ""]
FakeResponseUrl ==
    [scheme |-> "data", mediatype |-> "text/plain;charset=utf-8",
     data |-> "fake-valid-response"]

NotRun       == [kind |-> "notrun",    requestHeaders |-> << >>, redirectUrl |-> NoUrl]
Threw        == [kind |-> "threw",     requestHeaders |-> << >>, redirectUrl |-> NoUrl]
ReturnsNothing == [kind |-> "undefined", requestHeaders |-> << >>, redirectUrl |-> NoUrl]
CancelFalse  == [kind |-> "cancelFalse", requestHeaders |-> << >>, redirectUrl |-> NoUrl]
WithHeaders(h) == [kind |-> "headers", requestHeaders |-> h, redirectUrl |-> NoUrl]
Redirect(u)  == [kind |-> "redirect", requestHeaders |-> << >>, redirectUrl |-> u]

\* url.includes(...) is a TypeError unless url is a string
IsString(v) == v.type = "string"

IsAssetUrl(s) == Includes(s, PatChallengesHost) \/ Includes(s, PatTurnstile)
IsEndpointUrl(s) == Includes(s, PatChallengePlatform) \/ Includes(s, PatTurnstileV2)

\* script.js:2-26, the first onBeforeRequest listener
AssetListener(details) ==
    IF ~IsString(details.url) THEN Threw
    ELSE IF IsAssetUrl(details.url.text) THEN CancelFalse
    ELSE WithHeaders(HeadersOrEmpty(details) \o XPatched)

\* a header listener that builds a fresh list instead of appending
HeadersListenerFresh(details) ==
    WithHeaders(NavigationHeaders)

\* script.js:50-65, the onBeforeSendHeaders listener
HeadersListener(details) ==
    WithHeaders(HeadersOrEmpty(details) \o NavigationHeaders)

\* a redirect listener that gives challenge assets priority over endpoints
RedirectListenerAssetFirst(details) ==
    IF ~IsString(details.url) THEN Threw
    ELSE IF IsAssetUrl(details.url.text) THEN ReturnsNothing
    ELSE IF IsEndpointUrl(details.url.text) THEN Redirect(FakeResponseUrl)
    ELSE ReturnsNothing

\* script.js:68-78, the second onBeforeRequest listener
RedirectListener(details) ==
    IF ~IsString(details.url) THEN Threw
    ELSE IF IsEndpointUrl(details.url.text) THEN Redirect(FakeResponseUrl)
    ELSE ReturnsNothing

(***************************************************************************)
(* State                                                                   *)
(***************************************************************************)
VARIABLES
    gPhase,      \* life-cycle position of the request in flight
    gDetails,    \* the request descriptor as issued by the page
    gAsset,      \* what the first onBeforeRequest listener returned
    gRedirect,   \* what the second onBeforeRequest listener returned
    gSendInput,  \* the descriptor handed to the onBeforeSendHeaders listener
    gSend,       \* what the onBeforeSendHeaders listener returned
    gOutcome,    \* what finally happened to the request
    msgReply     \* the token of the latest sendResponse of the onMessage listener

gateVars == << gPhase, gDetails, gAsset, gRedirect, gSendInput, gSend, gOutcome,
               msgReply >>

VARIABLES
    now,          \* Date.now(), ms since the page was created
    nav,          \* own properties of the navigator object
    injectorRan,  \* content.js has defined navigator.webdriver
    contentRuns,  \* executions of content.js
    part000Runs,  \* executions of part_000
    part001Runs,  \* executions of part_001
    tamper,       \* last attempt of a page script on navigator.webdriver
    turnstile,    \* window.turnstile
    widgetLoaded, \* the page's widget script has run
    dclFired,     \* DOMContentLoaded has been dispatched
    dclListeners, \* DOMContentLoaded listeners, in registration order
    canvasWraps,  \* wrappers around HTMLCanvasElement.prototype.toDataURL
    observers,    \* MutationObservers observing the document
    fetchWraps,   \* wrappers around the native window.fetch
    timers,       \* pending setTimeout callbacks
    renderCount,  \* render calls made on a shim
    rLast,        \* the latest render call on a shim and its callback
    grPrev,       \* the getResponse call before the latest
    grLast,       \* the latest getResponse call
    mouse,        \* closures of the mousemove listeners (lastTime, mouseX, mouseY)
    mPrev,        \* what the first listener had stored before the latest event
    mStopped,     \* stopPropagation() was called on the latest event
    mEvents,      \* mousemove events dispatched to a listener so far (counted up to 2)
    fLast,        \* the latest call of window.fetch
    contentThrew, \* the latest run of content.js ended in an uncaught TypeError
    part001Threw, \* the latest run of part_001 ended in an uncaught TypeError
    cLast,        \* the latest call of canvas.toDataURL
    realUse,      \* whether the page got a response of the real widget, and when
    dLast,        \* the latest node added to the document
    mLog          \* the latest pointer events the listener saw, and the injection time

navVars == << nav, injectorRan, contentRuns, part000Runs, part001Runs, tamper >>
widgetVars == << turnstile, widgetLoaded, dclFired, dclListeners, timers,
                 renderCount, rLast, grPrev, grLast >>
mouseVars == << mouse, mPrev, mStopped, mEvents >>
otherVars == << canvasWraps, observers, fetchWraps, fLast >>
extraVars == << contentThrew, part001Threw, cLast, realUse, dLast, mLog >>
pageVars == << now, navVars, widgetVars, mouseVars, otherVars, extraVars >>

Details(u, has, hs) == [url |-> u, hasHeaders |-> has, requestHeaders |-> hs]
NoDetails == Details(UndefVal, FALSE, << >>)

NoResponse == [status |-> 0, body |-> ""]
Pending == [kind |-> "pending", network |-> FALSE, headers |-> << >>, response |-> NoResponse]

\* a navigation to a data: URL is answered locally with status 200 and the URL's payload
DataUrlResponse(u) == [status |-> 200, body |-> u.data]

\* 'fake_turnstile_token_' + Date.now(), 'fake-valid-token'
Token(prefix, stamped, stamp) == [prefix |-> prefix, stamped |-> stamped, stamp |-> stamp]
NoToken == Token("", FALSE, 0)
StampedToken(t) == Token("fake_turnstile_token_", TRUE, t)
FixedToken == Token("fake-valid-token", FALSE, 0)

GateInit ==
    /\ gPhase = "idle"
    /\ gDetails = NoDetails
    /\ gAsset = NotRun
    /\ gRedirect = NotRun
    /\ gSendInput = NoDetails
    /\ gSend = NotRun
    /\ gOutcome = Pending
    /\ msgReply = NoToken

UrlValues == { StrVal(s) : s \in UrlStrings } \cup { UndefVal, NumberVal }
HeaderLists == SeqsUpTo(PageHeaders, MaxHeaders)

\* the browser issues a request matching the filters { urls: ["*://*/*"] } / <all_urls>
NewRequest ==
    /\ gPhase = "idle"
    /\ \E u \in UrlValues, has \in BOOLEAN, hs \in HeaderLists :
          /\ (~has => hs = << >>)
          /\ gDetails' = Details(u, has, hs)
    /\ gPhase' = "beforeRequest"
    /\ gAsset' = NotRun
    /\ gRedirect' = NotRun
    /\ gSendInput' = NoDetails
    /\ gSend' = NotRun
    /\ gOutcome' = Pending
    /\ UNCHANGED pageVars
    /\ UNCHANGED msgReply

\* onBeforeRequest fires the listener registered at script.js:2
RunAssetListener ==
    /\ gPhase = "beforeRequest"
    /\ gAsset = NotRun
    /\ gAsset' = AssetListener(gDetails)
    /\ UNCHANGED << gPhase, gDetails, gRedirect, gSendInput, gSend, gOutcome >>
    /\ UNCHANGED pageVars
    /\ UNCHANGED msgReply

\* onBeforeRequest fires the listener registered at script.js:68
RunRedirectListener ==
    /\ gPhase = "beforeRequest"
    /\ gRedirect = NotRun
    /\ gRedirect' = RedirectListener(gDetails)
    /\ UNCHANGED << gPhase, gDetails, gAsset, gSendInput, gSend, gOutcome >>
    /\ UNCHANGED pageVars
    /\ UNCHANGED msgReply

\* the blocking responses of the onBeforeRequest phase take effect:
\* a redirectUrl wins over responses that do not cancel, a returned header
\* list replaces the request's header list, a listener that threw or
\* returned nothing leaves the request alone
ApplyBeforeRequest ==
    /\ gPhase = "beforeRequest"
    /\ gAsset # NotRun
    /\ gRedirect # NotRun
    /\ IF gRedirect.kind = "redirect" \/ gAsset.kind = "redirect"
       THEN /\ gPhase' = "done"
            /\ gOutcome' = [kind |-> "redirected", network |-> FALSE,
                            headers |-> << >>,
                            response |-> DataUrlResponse(
                                IF gRedirect.kind = "redirect"
                                THEN gRedirect.redirectUrl ELSE gAsset.redirectUrl)]
            /\ UNCHANGED gSendInput
       ELSE /\ gPhase' = "beforeSendHeaders"
            /\ gSendInput' =
                 IF gAsset.kind = "headers"
                 THEN Details(gDetails.url, TRUE, gAsset.requestHeaders)
                 ELSE gDetails
            /\ UNCHANGED gOutcome
    /\ UNCHANGED << gDetails, gAsset, gRedirect, gSend >>
    /\ UNCHANGED pageVars
    /\ UNCHANGED msgReply

\* onBeforeSendHeaders fires the listener registered at script.js:50 and the
\* request goes to the network with the header list it returned
RunHeadersListener ==
    /\ gPhase = "beforeSendHeaders"
    /\ gSend' = HeadersListener(gSendInput)
    /\ gPhase' = "done"
    /\ gOutcome' = [kind |-> "sent", network |-> TRUE,
                    headers |-> gSend'.requestHeaders, response |-> NoResponse]
    /\ UNCHANGED << gDetails, gAsset, gRedirect, gSendInput >>
    /\ UNCHANGED pageVars
    /\ UNCHANGED msgReply

\* the request is over (answered or failed); the Gate keeps nothing of it
RequestFinished ==
    /\ gPhase = "done"
    /\ gPhase' = "idle"
    /\ gDetails' = NoDetails
    /\ gAsset' = NotRun
    /\ gRedirect' = NotRun
    /\ gSendInput' = NoDetails
    /\ gSend' = NotRun
    /\ gOutcome' = Pending
    /\ UNCHANGED pageVars
    /\ UNCHANGED msgReply

GateNext ==
    \/ NewRequest
    \/ RequestFinished
    \/ RunAssetListener
    \/ RunRedirectListener
    \/ ApplyBeforeRequest
    \/ RunHeadersListener

(***************************************************************************)
(* The page: navigator, the widget object, timers, listeners               *)
(***************************************************************************)

(***************************************************************************)
(* navigator and Object.defineProperty                                     *)
(***************************************************************************)
NavProps == { "webdriver", "plugins", "languages", "mimeTypes",
              "platform", "hardwareConcurrency" }

\* a property that is not an own property of navigator (it is read from Navigator.prototype)
NotOwn == [own |-> FALSE, configurable |-> FALSE, getter |-> "native"]
OwnProp(who, conf) == [own |-> TRUE, configurable |-> conf, getter |-> who]

\* Object.defineProperty(navigator, prop, { get: <a new function of `who`> [, configurable] })
\* conf is "unspecified", "true" or "false".  Gives the new navigator and
\* whether the call returned (it throws a TypeError on a non-configurable
\* own property, whose getter is another function object).
DefineConfigurable(n, prop, who, conf) ==
    IF ~n[prop].own
    THEN [nav |-> [n EXCEPT ![prop] = OwnProp(who, TRUE)], ok |-> TRUE]
    ELSE IF n[prop].configurable
    THEN [nav |-> [n EXCEPT ![prop] = OwnProp(who, conf # "false")], ok |-> TRUE]
    ELSE [nav |-> n, ok |-> FALSE]

Define(n, prop, who, conf) ==
    IF ~n[prop].own
    THEN [nav |-> [n EXCEPT ![prop] = OwnProp(who, conf = "true")], ok |-> TRUE]
    ELSE IF n[prop].configurable
    THEN [nav |-> [n EXCEPT ![prop] = OwnProp(who, conf # "false")], ok |-> TRUE]
    ELSE [nav |-> n, ok |-> FALSE]

\* a run of Object.defineProperty calls that stops at the first one that throws;
\* done is the number of calls that returned
RECURSIVE DefineAll(_, _, _, _)
DefineAll(n, props, who, done) ==
    IF props = << >> THEN [nav |-> n, done |-> done]
    ELSE LET r == Define(n, Head(props), who, "unspecified")
         IN  IF r.ok THEN DefineAll(r.nav, Tail(props), who, done + 1)
             ELSE [nav |-> n, done |-> done]

\* delete navigator[prop]
Delete(n, prop) ==
    IF n[prop].own /\ n[prop].configurable
    THEN [n EXCEPT ![prop] = NotOwn]
    ELSE n

\* the value navigator.webdriver reads as: the own getter's result, or the
\* prototype's native getter, which reports the automated browser
ReadWebdriver ==
    IF nav["webdriver"].own
    THEN (IF nav["webdriver"].getter = "content" THEN "undefined" ELSE "true")
    ELSE "true"

(***************************************************************************)
(* the widget object                                                       *)
(***************************************************************************)
Absent == [present |-> FALSE, render |-> "none", reset |-> "none",
           getResponse |-> "none", ready |-> "none"]
RealWidget == [present |-> TRUE, render |-> "real", reset |-> "real",
               getResponse |-> "real", ready |-> "real"]
\* part_001:14-20, an object with a render method only
StubWidget == [present |-> TRUE, render |-> "part001", reset |-> "none",
               getResponse |-> "none", ready |-> "none"]

RenderDelay000 == 1000
RenderDelay001 == 1000

NoRender == [id |-> 0, time |-> 0, ret |-> "none", shim |-> "none",
             hasCallback |-> FALSE, cbCount |-> 0, cbTime |-> 0,
             cbToken |-> NoToken, cbThrew |-> FALSE]
NoCall == [kind |-> "none", widgetId |-> "none", token |-> NoToken]

NoFetch == [called |-> FALSE, arg |-> UndefVal, kind |-> "none", status |-> 0,
            success |-> FALSE, nativeCalls |-> 0, nativeArg |-> UndefVal]

\* no call of toDataURL yet
NoCanvasCall == [called |-> FALSE, type |-> "none", outcome |-> "none", calls |-> 0,
                 before |-> << >>, after |-> << >>, selected |-> << >>]

\* no node added to the document yet
NoNode == [added |-> FALSE, tagName |-> "none", nested |-> FALSE, src |-> << >>,
           tagged |-> FALSE, removed |-> FALSE]

\* a pointer position and the clock reading that goes with it
Point(x, y, t) == [x |-> x, y |-> y, t |-> t]

PageInit ==
    /\ now = 0
    /\ nav = [p \in NavProps |-> NotOwn]
    /\ injectorRan = FALSE
    /\ contentRuns = 0
    /\ part000Runs = 0
    /\ part001Runs = 0
    /\ tamper = "none"
    /\ turnstile = Absent
    /\ widgetLoaded = FALSE
    /\ dclFired = FALSE
    /\ dclListeners = << >>
    /\ canvasWraps = 0
    /\ observers = 0
    /\ fetchWraps = 0
    /\ timers = {}
    /\ renderCount = 0
    /\ rLast = NoRender
    /\ grPrev = NoCall
    /\ grLast = NoCall
    /\ mouse = << >>
    /\ mPrev = [lastTime |-> 0, mouseX |-> 0, mouseY |-> 0]
    /\ mStopped = FALSE
    /\ mEvents = 0
    /\ fLast = NoFetch
    /\ contentThrew = FALSE
    /\ part001Threw = FALSE
    /\ cLast = NoCanvasCall
    /\ realUse = "none"
    /\ dLast = NoNode
    /\ mLog = [last |-> Point(0, 0, 0), prev |-> Point(0, 0, 0)]

(***************************************************************************)
(* the injected scripts                                                    *)
(***************************************************************************)
ContentProps == << "webdriver", "plugins", "languages", "mimeTypes" >>
Part001Props == << "languages", "platform", "hardwareConcurrency" >>

\* content.js, run to its end or to the first uncaught TypeError
RunContent ==
    /\ contentRuns < MaxInjections
    /\ contentRuns' = contentRuns + 1
    /\ LET r == DefineAll(nav, ContentProps, "content", 0)
           completed == r.done = Len(ContentProps)
       IN  /\ nav' = r.nav
           /\ injectorRan' = (injectorRan \/ r.done >= 1)
           /\ turnstile' =
                IF completed /\ turnstile.present /\ turnstile.ready # "none"
                THEN [turnstile EXCEPT !.ready = "content"]
                ELSE turnstile
           /\ canvasWraps' = IF completed THEN canvasWraps + 1 ELSE canvasWraps
           /\ mouse' = IF completed
                       THEN Append(mouse, [lastTime |-> now, mouseX |-> 0, mouseY |-> 0])
                       ELSE mouse
           /\ observers' = IF completed THEN observers + 1 ELSE observers
           /\ contentThrew' = ~completed
           /\ mLog' = IF completed /\ Len(mouse) = 0
                      THEN [last |-> Point(0, 0, now), prev |-> Point(0, 0, now)]
                      ELSE mLog
    /\ UNCHANGED << part001Threw, cLast, realUse, dLast >>
    /\ UNCHANGED << now, part000Runs, part001Runs, tamper, widgetLoaded, dclFired,
                    dclListeners, fetchWraps, timers, renderCount, rLast, grPrev,
                    grLast, mPrev, mStopped, mEvents, fLast >>
    /\ UNCHANGED gateVars

\* part_000
RunPart000 ==
    /\ part000Runs < MaxInjections
    /\ part000Runs' = part000Runs + 1
    /\ turnstile' =
         IF turnstile.present
         THEN [turnstile EXCEPT !.render = "part000", !.reset = "part000",
                                !.getResponse = "part000"]
         ELSE turnstile
    /\ fetchWraps' = fetchWraps + 1
    /\ dclListeners' = Append(dclListeners, "part000")
    /\ UNCHANGED << now, nav, injectorRan, contentRuns, part001Runs, tamper,
                    widgetLoaded, dclFired, canvasWraps, observers, timers,
                    renderCount, rLast, grPrev, grLast, mouseVars, fLast >>
    /\ UNCHANGED gateVars
    /\ UNCHANGED extraVars

\* part_001, run to its end or to the first uncaught TypeError
RunPart001 ==
    /\ part001Runs < MaxInjections
    /\ part001Runs' = part001Runs + 1
    /\ LET r == DefineAll(Delete(nav, "webdriver"), Part001Props, "part001", 0)
           completed == r.done = Len(Part001Props)
       IN  /\ nav' = r.nav
           /\ dclListeners' = IF completed THEN Append(dclListeners, "part001")
                              ELSE dclListeners
           /\ part001Threw' = ~completed
    /\ UNCHANGED << contentThrew, cLast, realUse, dLast, mLog >>
    /\ UNCHANGED << now, injectorRan, contentRuns, part000Runs, tamper, turnstile,
                    widgetLoaded, dclFired, canvasWraps, observers, fetchWraps,
                    timers, renderCount, rLast, grPrev, grLast, mouseVars, fLast >>
    /\ UNCHANGED gateVars

(***************************************************************************)
(* page scripts that probe navigator.webdriver after the injection         *)
(***************************************************************************)
\* Object.defineProperty(navigator, 'webdriver', { get: ..., configurable: c })
PageDefinesWebdriver ==
    /\ injectorRan
    /\ \E c \in { "unspecified", "true", "false" } :
          nav' = Define(nav, "webdriver", "page", c).nav
    /\ tamper' = "define"
    /\ UNCHANGED << now, injectorRan, contentRuns, part000Runs, part001Runs,
                    widgetVars, mouseVars, otherVars >>
    /\ UNCHANGED gateVars
    /\ UNCHANGED extraVars

\* delete navigator.webdriver
PageDeletesWebdriver ==
    /\ injectorRan
    /\ nav' = Delete(nav, "webdriver")
    /\ tamper' = "delete"
    /\ UNCHANGED << now, injectorRan, contentRuns, part000Runs, part001Runs,
                    widgetVars, mouseVars, otherVars >>
    /\ UNCHANGED gateVars
    /\ UNCHANGED extraVars

(***************************************************************************)
(* the widget shims, timers and the clock                                  *)
(***************************************************************************)
WidgetIds == { "fake_widget_id", "other_widget" }
TickSteps == { 500 }

Min(a, b) == IF a <= b THEN a ELSE b
EarliestDue == IF timers = {} THEN MaxTime
               ELSE CHOOSE d \in { x.due : x \in timers } :
                        \A y \in timers : d <= y.due

\* time passes; a pending timer fires when it is due, so the clock does not
\* pass a pending timer
Tick ==
    /\ \E d \in TickSteps :
          /\ now' = Min(Min(now + d, EarliestDue), MaxTime)
          /\ now' > now
    /\ UNCHANGED << navVars, widgetVars, mouseVars, otherVars, gateVars >>
    /\ UNCHANGED extraVars

\* the page's own widget script defines window.turnstile
PageLoadsWidget ==
    /\ ~widgetLoaded
    /\ widgetLoaded' = TRUE
    /\ turnstile' = RealWidget
    /\ UNCHANGED << now, navVars, dclFired, dclListeners, timers, renderCount,
                    rLast, grPrev, grLast, mouseVars, otherVars, gateVars >>
    /\ UNCHANGED extraVars

\* the document dispatches DOMContentLoaded to the registered listeners:
\* part_000:48-58 only rewrites attributes, part_001:8-25 replaces window.turnstile
DOMContentLoaded ==
    /\ ~dclFired
    /\ dclFired' = TRUE
    /\ turnstile' =
         IF \E i \in 1 .. Len(dclListeners) : dclListeners[i] = "part001"
         THEN StubWidget ELSE turnstile
    /\ UNCHANGED << now, navVars, widgetLoaded, dclListeners, timers, renderCount,
                    rLast, grPrev, grLast, mouseVars, otherVars, gateVars >>
    /\ UNCHANGED extraVars

\* what render returns: part_000:18 returns the identifier, the arrow function
\* of part_001:15-19 returns nothing
RenderReturn(shim) ==
    IF shim = "part000" THEN "fake_widget_id" ELSE "undefined"

\* whether render schedules a timer: part_000:12 only for a function
\* callback, part_001:16 always
RenderSchedules(shim, hasCallback) ==
    IF shim = "part000" THEN hasCallback ELSE TRUE

RenderDelay(shim) == IF shim = "part000" THEN RenderDelay000 ELSE RenderDelay001

\* the token the timer hands to the callback
CallbackToken(shim, t) == IF shim = "part000" THEN StampedToken(t) ELSE FixedToken

\* a page script calls window.turnstile.render(element, options) on a shim
Render ==
    /\ turnstile.present
    /\ turnstile.render \in { "part000", "part001" }
    /\ renderCount < MaxRenders
    /\ renderCount' = renderCount + 1
    /\ \E hasCallback \in BOOLEAN :
          LET shim == turnstile.render IN
          /\ timers' =
               IF RenderSchedules(shim, hasCallback)
               THEN timers \cup { [id |-> renderCount + 1, due |-> now + RenderDelay(shim),
                                   shim |-> shim, hasCallback |-> hasCallback] }
               ELSE timers
          /\ rLast' = [id |-> renderCount + 1, time |-> now, ret |-> RenderReturn(shim),
                       shim |-> shim, hasCallback |-> hasCallback, cbCount |-> 0,
                       cbTime |-> 0, cbToken |-> NoToken, cbThrew |-> FALSE]
    /\ UNCHANGED << now, navVars, turnstile, widgetLoaded, dclFired, dclListeners,
                    grPrev, grLast, mouseVars, otherVars, gateVars >>
    /\ UNCHANGED extraVars

\* a due setTimeout callback runs: it calls the success callback with a token
\* (part_001:17 throws a TypeError when there is no callback to call)
TimerFire ==
    /\ \E tm \in timers :
          /\ tm.due <= now
          /\ timers' = timers \ { tm }
          /\ rLast' =
               IF tm.id # rLast.id THEN rLast
               ELSE IF tm.hasCallback
               THEN [rLast EXCEPT !.cbCount = @ + 1, !.cbTime = now,
                                  !.cbToken = CallbackToken(tm.shim, now)]
               ELSE [rLast EXCEPT !.cbThrew = TRUE]
    /\ UNCHANGED << now, navVars, turnstile, widgetLoaded, dclFired, dclListeners,
                    renderCount, grPrev, grLast, mouseVars, otherVars, gateVars >>
    /\ UNCHANGED extraVars

\* request.action of a runtime message, and the values the model lets
\* Math.random().toString(36).substring(2, 15) take
MessageActions == { "getTurnstileToken", "ping" }
RandomSuffixes == { "k3x9", "q7m2" }

\* script.js:29-34: the token the onMessage listener passes to sendResponse
MessageToken(suffix) == Token("mock-token-", TRUE, suffix)

\* a runtime message reaches the service worker's onMessage listener, which
\* answers only the action "getTurnstileToken"
OnMessage ==
    /\ \E action \in MessageActions, suffix \in RandomSuffixes :
          msgReply' = IF action = "getTurnstileToken"
                      THEN MessageToken(suffix)
                      ELSE msgReply
    /\ UNCHANGED << gPhase, gDetails, gAsset, gRedirect, gSendInput, gSend, gOutcome >>
    /\ UNCHANGED pageVars

\* what getResponse of the shim returns at clock reading t (part_000:27)
GetResponseToken(t) == StampedToken(t)

\* a page script calls window.turnstile.getResponse(widgetId); on the stub of
\* part_001 the method does not exist and the call is a TypeError
GetResponse ==
    /\ turnstile.present
    /\ turnstile.getResponse \in { "part000", "none" }
    /\ \E w \in WidgetIds :
          grLast' = IF turnstile.getResponse = "part000"
                    THEN [kind |-> "token", widgetId |-> w,
                          token |-> GetResponseToken(now)]
                    ELSE [kind |-> "threw", widgetId |-> w, token |-> NoToken]
    /\ grPrev' = grLast
    /\ UNCHANGED << now, navVars, turnstile, widgetLoaded, dclFired, dclListeners,
                    timers, renderCount, rLast, mouseVars, otherVars, gateVars >>
    /\ UNCHANGED extraVars

\* the three scripts have all run on the page
AllInjected == contentRuns >= 1 /\ part000Runs >= 1 /\ part001Runs >= 1

\* a page script calls getResponse of the widget the page loaded itself, a
\* method no script has replaced, and gets the real widget's response
PageGetsRealResponse ==
    /\ turnstile.present
    /\ turnstile.getResponse = "real"
    /\ realUse' = IF AllInjected THEN "afterInjection"
                  ELSE IF realUse = "none" THEN "beforeInjection"
                  ELSE realUse
    /\ UNCHANGED << now, navVars, widgetVars, mouseVars, otherVars, gateVars >>
    /\ UNCHANGED << contentThrew, part001Threw, cLast, dLast, mLog >>

RenderNext ==
    \/ RunContent
    \/ RunPart000
    \/ RunPart001
    \/ PageLoadsWidget
    \/ DOMContentLoaded
    \/ Render
    \/ TimerFire
    \/ Tick
    \/ OnMessage

ResponseNext ==
    \/ RunContent
    \/ RunPart000
    \/ RunPart001
    \/ PageLoadsWidget
    \/ DOMContentLoaded
    \/ GetResponse
    \/ PageGetsRealResponse
    \/ Tick

(***************************************************************************)
(* the mousemove listener of content.js                                    *)
(***************************************************************************)
Coords == { 0, 5, 200 }
MouseDts == { 0, 5, 10, 200 }

Abs(a) == IF a < 0 THEN 0 - a ELSE a

\* the double n / d for integers n >= 0 and d: NaN for 0/0, Infinity for n/0
Quot(n, d) ==
    IF d = 0
    THEN [kind |-> IF n = 0 THEN "NaN" ELSE "Infinity", num |-> 0, den |-> 1]
    ELSE [kind |-> "number", num |-> n, den |-> d]

\* q > 0.5 (false for NaN)
ExceedsThreshold(q) ==
    \/ q.kind = "Infinity"
    \/ /\ q.kind = "number"
       /\ IF q.den > 0 THEN 2 * q.num > q.den ELSE 2 * q.num < q.den

\* a listener that measures the horizontal velocity only
MouseStopsHorizontal(c, x, y, t) ==
    ExceedsThreshold(Quot(Abs(x - c.mouseX), t - c.lastTime))

\* content.js:82-92: whether the listener with closure c stops the event at
\* (x, y) dispatched at clock reading t
MouseStops(c, x, y, t) ==
    LET deltaTime == t - c.lastTime
        velocityX == Quot(Abs(x - c.mouseX), deltaTime)
        velocityY == Quot(Abs(y - c.mouseY), deltaTime)
    IN  ExceedsThreshold(velocityX) \/ ExceedsThreshold(velocityY)

\* a listener that leaves its closure alone when it stops the event
MouseStoreUnlessStopped(c, x, y, t, stopped) ==
    IF stopped THEN c ELSE [lastTime |-> t, mouseX |-> x, mouseY |-> y]

\* content.js:94-96: the closure of the listener after the event at (x, y)
\* dispatched at clock reading t, stopped or not
MouseStore(c, x, y, t, stopped) ==
    [lastTime |-> t, mouseX |-> x, mouseY |-> y]

\* the user (or a script) moves the pointer to (x, y), dt ms after the last
\* thing that happened; every registered listener runs
MouseMove ==
    /\ \E x \in Coords, y \in Coords, dt \in MouseDts :
          /\ now + dt <= MaxMouseTime
          /\ now + dt <= EarliestDue
          /\ now' = now + dt
          /\ mouse' = [i \in 1 .. Len(mouse) |->
                         MouseStore(mouse[i], x, y, now',
                                    MouseStops(mouse[i], x, y, now'))]
          /\ mLog' = IF Len(mouse) > 0
                     THEN [last |-> Point(x, y, now'), prev |-> mLog.last]
                     ELSE mLog
          /\ mStopped' = \E i \in 1 .. Len(mouse) : MouseStops(mouse[i], x, y, now')
    /\ mPrev' = IF Len(mouse) > 0 THEN mouse[1] ELSE mPrev
    /\ mEvents' = IF Len(mouse) > 0 THEN Min(mEvents + 1, 2) ELSE mEvents
    /\ UNCHANGED << navVars, widgetVars, otherVars, gateVars >>
    /\ UNCHANGED << contentThrew, part001Threw, cLast, realUse, dLast >>

MouseNext ==
    \/ RunContent
    \/ RunPart001
    \/ MouseMove

(***************************************************************************)
(* the fetch override of part_000                                          *)
(***************************************************************************)
FetchArgs == { StrVal(s) : s \in UrlStrings } \cup { UrlObjVal(s) : s \in UrlStrings }
                 \cup { RequestVal(s) : s \in UrlStrings }

NativeFetch(arg) ==
    [called |-> TRUE, arg |-> arg, kind |-> "native", status |-> 0,
     success |-> FALSE, nativeCalls |-> 1, nativeArg |-> arg]

SyntheticResponse(arg) ==
    [called |-> TRUE, arg |-> arg, kind |-> "synthetic", status |-> 200,
     success |-> TRUE, nativeCalls |-> 0, nativeArg |-> UndefVal]

\* part_000:33-45 stacked `wraps` times on the native fetch: each wrapper
\* answers itself or calls the function it replaced
RECURSIVE PatchedFetch(_, _)
PatchedFetch(wraps, arg) ==
    IF wraps = 0 THEN NativeFetch(arg)
    ELSE IF arg.type = "string" /\ Includes(arg.text, PatChallenges)
    THEN SyntheticResponse(arg)
    ELSE PatchedFetch(wraps - 1, arg)

\* a page script calls window.fetch(arg)
FetchCall ==
    /\ ~fLast.called
    /\ \E arg \in FetchArgs : fLast' = PatchedFetch(fetchWraps, arg)
    /\ UNCHANGED << now, navVars, widgetVars, mouseVars, canvasWraps, observers,
                    fetchWraps, gateVars >>
    /\ UNCHANGED extraVars

\* the returned promise settles and the page is done with the call
FetchSettled ==
    /\ fLast.called
    /\ fLast' = NoFetch
    /\ UNCHANGED << now, navVars, widgetVars, mouseVars, canvasWraps, observers,
                    fetchWraps, gateVars >>
    /\ UNCHANGED extraVars

FetchNext ==
    \/ RunPart000
    \/ FetchCall
    \/ FetchSettled

(***************************************************************************)
(* the toDataURL wrapper of content.js                                     *)
(***************************************************************************)
MaxStack == 3      \* nested calls after which the engine's call stack is full
MaxPixels == 2     \* pixels of a canvas
RandomScale == 1000  \* a value n of Math.random() stands for n / RandomScale
SelectChance == 10   \* 0.01, in units of 1 / RandomScale

\* arguments[0] of toDataURL; "none" is a call without arguments
CanvasTypes == { "none", "image/png", "image/jpeg" }

\* RGBA pixels, and the canvases the model encodes
Pixels == { << 0, 128, 255, 255 >>, << 7, 254, 1, 0 >> }
Images == { img \in SeqsUpTo(Pixels, MaxPixels) : Len(img) >= 1 }

\* the values the model lets Math.random() take, per pixel: one draw for
\* the selection and one for each colour channel
SelectDraws == { 5, 500 }
ChannelDraws == { 250, 750 }
PixelDraws == [sel : SelectDraws, r : ChannelDraws, g : ChannelDraws, b : ChannelDraws]

\* Math.floor(Math.random() * 2 - 1) for the draw n / RandomScale
ChannelDelta(n) == (2 * n - RandomScale) \div RandomScale

\* a store into a Uint8ClampedArray
Clamp(v) == IF v < 0 THEN 0 ELSE IF v > 255 THEN 255 ELSE v

\* content.js:64: Math.random() < 0.01
Selected(d) == d.sel < SelectChance

\* content.js:64-68 for one pixel
PerturbPixel(px, d) ==
    IF Selected(d)
    THEN << Clamp(px[1] + ChannelDelta(d.r)), Clamp(px[2] + ChannelDelta(d.g)),
            Clamp(px[3] + ChannelDelta(d.b)), px[4] >>
    ELSE px

\* content.js:63-69, the loop over the image data
PerturbImage(img, ds) == [i \in 1 .. Len(img) |-> PerturbPixel(img[i], ds[i])]

\* content.js:52-73: the patched HTMLCanvasElement.prototype.toDataURL, called
\* as the depth-th nested call.  For 'image/png' it returns what toDataURL of
\* the scratch canvas returns, and that method is the patched one again; a
\* call beyond the stack limit is a RangeError that nothing catches.
RECURSIVE WrappedToDataURL(_, _)
WrappedToDataURL(type, depth) ==
    IF depth > MaxStack
    THEN [outcome |-> "rangeError", calls |-> depth - 1]
    ELSE IF type = "image/png"
    THEN WrappedToDataURL(type, depth + 1)
    ELSE [outcome |-> "true", calls |-> depth]

\* a page script calls toDataURL on a canvas holding img
ToDataURL ==
    /\ ~cLast.called
    /\ \E type \in CanvasTypes, img \in Images :
          \E ds \in [1 .. Len(img) -> PixelDraws] :
             LET wrapped == canvasWraps >= 1
                 r == IF wrapped THEN WrappedToDataURL(type, 1)
                      ELSE [outcome |-> "true", calls |-> 0]
                 loops == wrapped /\ type = "image/png"
             IN  cLast' = [called |-> TRUE, type |-> type, outcome |-> r.outcome,
                           calls |-> r.calls, before |-> img,
                           after |-> IF loops THEN PerturbImage(img, ds) ELSE img,
                           selected |-> [i \in 1 .. Len(img) |->
                                           loops /\ Selected(ds[i])]]
    /\ UNCHANGED << now, navVars, widgetVars, mouseVars, otherVars, gateVars >>
    /\ UNCHANGED << contentThrew, part001Threw, realUse, dLast, mLog >>

\* the page script has used what the call gave it
CanvasResultUsed ==
    /\ cLast.called
    /\ cLast' = NoCanvasCall
    /\ UNCHANGED << now, navVars, widgetVars, mouseVars, otherVars, gateVars >>
    /\ UNCHANGED << contentThrew, part001Threw, realUse, dLast, mLog >>

CanvasNext ==
    \/ RunContent
    \/ RunPart001
    \/ ToDataURL
    \/ CanvasResultUsed

(***************************************************************************)
(* the MutationObserver of content.js                                      *)
(***************************************************************************)
\* what a page script inserts into the document: a script element (its src
\* is the empty string when it has none), or a DIV whose child is a script
\* element with that src.  The mutation record lists the inserted node only.
AddedNodes ==
    { [tagName |-> "SCRIPT", nested |-> FALSE, src |-> s] : s \in UrlStrings }
        \cup { [tagName |-> "DIV", nested |-> TRUE, src |-> s] : s \in UrlStrings }

\* content.js:106, the test on node.src
ObserverMatches(src) == Includes(src, PatChallengesHost) \/ Includes(src, PatTurnstile)

\* content.js:103-110 for one entry of mutation.addedNodes: whether the
\* callback sets data-patched on the script element
ObserverTags(node) ==
    /\ node.tagName = "SCRIPT"
    /\ node.src # << >>
    /\ ObserverMatches(node.src)

\* a page script inserts a node; every registered observer is called back.
\* The callback has no statement that detaches a node.
AddNode ==
    /\ ~dLast.added
    /\ \E node \in AddedNodes :
          dLast' = [added |-> TRUE, tagName |-> node.tagName, nested |-> node.nested,
                    src |-> node.src,
                    tagged |-> (observers >= 1 /\ ObserverTags(node)),
                    removed |-> FALSE]
    /\ UNCHANGED << now, navVars, widgetVars, mouseVars, otherVars, gateVars >>
    /\ UNCHANGED << contentThrew, part001Threw, cLast, realUse, mLog >>

\* the page goes on; the record of the insertion is dropped
NodeSettled ==
    /\ dLast.added
    /\ dLast' = NoNode
    /\ UNCHANGED << now, navVars, widgetVars, mouseVars, otherVars, gateVars >>
    /\ UNCHANGED << contentThrew, part001Threw, cLast, realUse, mLog >>

ObserverNext ==
    \/ RunContent
    \/ RunPart001
    \/ AddNode
    \/ NodeSettled

NavNext ==
    \/ RunContent
    \/ RunPart000
    \/ RunPart001
    \/ PageDefinesWebdriver
    \/ PageDeletesWebdriver

vars == << gateVars, pageVars >>
Init == GateInit /\ PageInit
SpecGate == Init /\ [][GateNext]_vars
SpecNav == Init /\ [][NavNext]_vars
SpecMouse == Init /\ [][MouseNext]_vars
SpecFetch == Init /\ [][FetchNext]_vars
SpecRender == Init /\ [][RenderNext]_vars
SpecResponse == Init /\ [][ResponseNext]_vars
SpecCanvas == Init /\ [][CanvasNext]_vars
SpecObserver == Init /\ [][ObserverNext]_vars

(***************************************************************************)
(* Claims about the Gate                                                   *)
(***************************************************************************)
GateUrlIsString == gPhase # "idle" /\ IsString(gDetails.url)

\* C1: for every request URL matching the challenge-asset pattern, the
\* combined outcome of the before-request listeners is never a substituted
\* (redirected) response, even when the URL also matches an endpoint pattern.
C1_AssetNeverForged ==
    (GateUrlIsString /\ IsAssetUrl(gDetails.url.text))
        => /\ gOutcome.kind # "redirected"
           /\ ~(gAsset.kind = "cancelFalse" /\ gRedirect.kind = "redirect")

\* C2: for every request whose URL matches neither pattern, after all
\* listeners have run the request is neither cancelled nor redirected and its
\* header list is the original list followed by exactly the five
\* navigation-context headers.
C2_OrdinaryOnlyNavigationHeaders ==
    (/\ GateUrlIsString
     /\ gPhase = "done"
     /\ ~IsAssetUrl(gDetails.url.text)
     /\ ~IsEndpointUrl(gDetails.url.text))
        => /\ gOutcome.kind = "sent"
           /\ gOutcome.headers = HeadersOrEmpty(gDetails) \o NavigationHeaders

C4_ListenersNeverThrow ==
    /\ gAsset.kind # "threw"
    /\ gRedirect.kind # "threw"
    /\ gSend.kind # "threw"

\* C5: every header list a listener returns has the headers the listener was
\* handed as a prefix (same names, values and order): listeners only append.
C5_HeadersOnlyAppended ==
    /\ gAsset.kind = "headers" =>
          IsPrefix(HeadersOrEmpty(gDetails), gAsset.requestHeaders)
    /\ gSend.kind = "headers" =>
          IsPrefix(HeadersOrEmpty(gSendInput), gSend.requestHeaders)

\* C5 witness: both header-returning listeners ran on a request that carried
\* headers of its own
C5_Witness ==
    /\ gPhase = "done"
    /\ gAsset.kind = "headers"
    /\ gSend.kind = "headers"
    /\ Len(HeadersOrEmpty(gDetails)) >= 2
    /\ Len(gSend.requestHeaders) > Len(gAsset.requestHeaders)

(***************************************************************************)
(* Claims about the page                                                   *)
(***************************************************************************)
\* C8: once the Injector has run, navigator.webdriver reads as undefined in
\* every later state, whatever happens afterwards (further injections, the
\* other script's delete, page scripts redefining or deleting the property).
C8_WebdriverStaysUndefined ==
    injectorRan => ReadWebdriver = "undefined"

\* C8 witness: content.js ran twice, part_001 ran after it (languages is still
\* content.js's property) and a page script tried to delete the property
C8_Witness ==
    /\ injectorRan
    /\ contentRuns >= 2
    /\ part001Runs >= 1
    /\ nav["languages"].getter = "content"
    /\ tamper = "delete"
    /\ ReadWebdriver = "undefined"

\* C6: two consecutive getResponse calls on the shim with the same widget
\* identifier return different tokens, whatever the clock reads at the calls.
C6_ConsecutiveResponsesDiffer ==
    (/\ grPrev.kind = "token"
     /\ grLast.kind = "token"
     /\ grPrev.widgetId = grLast.widgetId)
        => grPrev.token # grLast.token

\* C7: a render call with a success callback on the current shim returns the
\* fake widget identifier, and the callback is invoked exactly once, between
\* 0.5 s and 1.5 s after the call, with a freshly generated token.
C7_RenderCallsBackOnce ==
    (rLast.id > 0 /\ rLast.hasCallback)
        => /\ rLast.ret = "fake_widget_id"
           /\ rLast.cbCount <= 1
           /\ rLast.cbCount = 1 =>
                /\ rLast.cbTime - rLast.time >= 500
                /\ rLast.cbTime - rLast.time <= 1500
                /\ rLast.cbToken.stamped
           /\ now - rLast.time > 1500 => rLast.cbCount = 1

MouseDx == Abs(mouse[1].mouseX - mPrev.mouseX)
MouseDy == Abs(mouse[1].mouseY - mPrev.mouseY)
MouseDt == mouse[1].lastTime - mPrev.lastTime

\* C9: a pointer-move event is stopped if its velocity relative to the
\* previous pointer-move event (displacement / elapsed ms) is above 0.5 px/ms
\* and propagates if it is below, for displacement in any direction and any
\* elapsed time including 0 ms.
C9_StoppedByVelocity ==
    mEvents >= 2 =>
        /\ (MouseDt = 0 /\ MouseDx + MouseDy > 0) => mStopped
        /\ (MouseDt > 0 /\ 4 * (MouseDx * MouseDx + MouseDy * MouseDy) > MouseDt * MouseDt)
              => mStopped
        /\ (MouseDt > 0 /\ 4 * (MouseDx * MouseDx + MouseDy * MouseDy) < MouseDt * MouseDt)
              => ~mStopped

AxisAbove(d, dt) == (dt = 0 /\ d > 0) \/ (dt > 0 /\ 2 * d > dt)

\* C9 (amended): a pointer-move event is stopped exactly when its horizontal
\* or its vertical displacement from the stored last position, divided by the
\* ms elapsed since the stored last time, is above 0.5 px/ms (with 0 ms
\* elapsed: exactly when that axis moved at all); 200 px along an axis in
\* 5 ms is stopped, 5 px in 200 ms propagates.
C9_StoppedByAxisVelocity ==
    mEvents >= 1 =>
        /\ mStopped <=> (AxisAbove(MouseDx, MouseDt) \/ AxisAbove(MouseDy, MouseDt))
        /\ (MouseDt = 5 /\ (MouseDx = 200 \/ MouseDy = 200)) => mStopped
        /\ (MouseDt = 200 /\ MouseDx <= 5 /\ MouseDy <= 5) => ~mStopped

\* C9 witness: a second event, 10 ms after the first and 5 px away on both
\* axes (0.707 px/ms along the diagonal, 0.5 px/ms per axis), that propagated
C9_Witness ==
    /\ mEvents >= 2
    /\ MouseDt = 10
    /\ MouseDx = 5
    /\ MouseDy = 5
    /\ ~mStopped

\* C10: with the fetch override installed, every fetch whose URL contains an
\* endpoint marker ('/cdn-cgi/challenge-platform/' or 'turnstile/v2/'), given
\* as a string, a URL object or a Request, resolves to the synthetic response
\* (status 200, success) without a call of the original fetch; every other
\* fetch is delegated to the original fetch exactly once, arguments unchanged.
C10_FetchInterceptsEndpoints ==
    (fLast.called /\ fetchWraps >= 1)
        => IF IsEndpointUrl(fLast.arg.text)
           THEN /\ fLast.kind = "synthetic"
                /\ fLast.status = 200
                /\ fLast.success
                /\ fLast.nativeCalls = 0
           ELSE /\ fLast.kind = "native"
                /\ fLast.nativeCalls = 1
                /\ fLast.nativeArg = fLast.arg

(***************************************************************************)
(* Claims about failing overrides and repeated injection                   *)
(***************************************************************************)
\* C11: when a single environment override fails during injection (a
\* navigator property that cannot be redefined, or no widget on the page),
\* it is skipped silently: no error escapes a script, the remaining
\* overrides of the script are applied, and the mutation watcher and the
\* pointer damper are still installed by content.js.
C11_OverrideFailuresSkipped ==
    /\ ~contentThrew
    /\ ~part001Threw
    /\ contentRuns >= 1 =>
          /\ \A i \in 1 .. Len(ContentProps) : nav[ContentProps[i]].own
          /\ Len(mouse) >= 1
          /\ observers >= 1
    /\ part001Runs >= 1 =>
          \A i \in 1 .. Len(Part001Props) : nav[Part001Props[i]].own

(***************************************************************************)
(* Claims about the fake tokens                                            *)
(***************************************************************************)
\* C12: every fake token handed out, by the render callback of a shim, by
\* getResponse or by the reply on the message channel, is a fixed prefix
\* followed by a changing component; no path hands out one constant token.
C12_TokensHaveChangingPart ==
    /\ rLast.cbCount >= 1 => (rLast.cbToken.prefix # "" /\ rLast.cbToken.stamped)
    /\ GetResponseToken(now).prefix # "" /\ GetResponseToken(now).stamped
    /\ msgReply # NoToken => (msgReply.prefix # "" /\ msgReply.stamped)

\* C13: running the injected scripts a second time on the same page raises
\* no error and leaves the page as it was after one run: the fetch wrapper
\* and the canvas wrapper are not stacked, and the mousemove listener, the
\* mutation watcher and the DOMContentLoaded handlers are not registered twice.
C13_SecondInjectionIsNoOp ==
    /\ (contentRuns >= 2 /\ part001Runs = 0) => ~contentThrew
    /\ (part001Runs >= 2 /\ contentRuns = 0) => ~part001Threw
    /\ canvasWraps <= 1
    /\ Len(mouse) <= 1
    /\ observers <= 1
    /\ fetchWraps <= 1
    /\ Cardinality({ i \in 1 .. Len(dclListeners) : dclListeners[i] = "part000" }) <= 1

(***************************************************************************)
(* Claims about the canvas wrapper                                         *)
(***************************************************************************)
\* C14: with the wrapper installed, every toDataURL conversion, whatever its
\* type argument (none included), returns the encoding of the perturbed
\* pixels and never the true output.
C14_AlwaysPerturbed ==
    (cLast.called /\ canvasWraps >= 1) => cLast.outcome = "perturbed"

\* C15: with the wrapper installed, toDataURL('image/png') terminates and
\* returns a data URL: encoding the scratch canvas does not enter the
\* perturbation again, so at most two calls of the method are nested.
C15_PngTerminates ==
    (cLast.called /\ canvasWraps >= 1 /\ cLast.type = "image/png")
        => /\ cLast.outcome \in { "true", "perturbed" }
           /\ cLast.calls <= 2

\* C16: in a perturbed conversion every colour channel of a selected pixel
\* is altered by exactly one level and stays within 0..255, the alpha
\* channel is never changed, and a pixel that is not selected is unchanged.
C16_ChannelsMoveOneLevel ==
    (cLast.called /\ canvasWraps >= 1 /\ cLast.type = "image/png")
        => \A i \in 1 .. Len(cLast.before) :
              IF cLast.selected[i]
              THEN /\ \A c \in 1 .. 3 :
                        /\ Abs(cLast.after[i][c] - cLast.before[i][c]) = 1
                        /\ cLast.after[i][c] \in 0 .. 255
                   /\ cLast.after[i][4] = cLast.before[i][4]
              ELSE cLast.after[i] = cLast.before[i]

(***************************************************************************)
(* Claims about the widget object                                          *)
(***************************************************************************)
\* C17: a widget object that the page creates after the scripts ran has its
\* render, reset and getResponse replaced by the shim before the page can
\* obtain a response of the real widget: once the scripts have run, no page
\* script ever gets a real widget response.
C17_LateWidgetIsPatched ==
    realUse # "afterInjection"

Shims == { "part000", "part001" }

\* C18: once a widget shim is installed, in every later state (after the
\* DOMContentLoaded handlers in particular) the widget object has render,
\* reset and getResponse, all three with shim behaviour.
C18_ShimKeepsThreeMethods ==
    (turnstile.present /\ turnstile.render \in Shims)
        => /\ turnstile.reset \in Shims
           /\ turnstile.getResponse \in Shims

(***************************************************************************)
(* Claims about the mutation watcher                                       *)
(***************************************************************************)
\* C19: with the watcher installed, every script element added anywhere in
\* the document, directly or as a descendant of an added node, is tagged
\* data-patched exactly when its src matches the asset or the endpoint
\* patterns; the watcher never removes a node.
C19_MatchingScriptsTagged ==
    (dLast.added /\ observers >= 1)
        => /\ dLast.tagged <=> (IsAssetUrl(dLast.src) \/ IsEndpointUrl(dLast.src))
           /\ ~dLast.removed

(***************************************************************************)
(* Claims about the stored pointer state                                   *)
(***************************************************************************)
\* C20: after every pointer-move event the listener saw, stopped or not, the
\* stored last position and timestamp are those of that event, so each event
\* was measured against the event immediately before it; the first event
\* after injection was measured against (0,0) and the injection time.
C20_LastEventStored ==
    (Len(mouse) >= 1 /\ mEvents >= 1)
        => /\ mouse[1].mouseX = mLog.last.x
           /\ mouse[1].mouseY = mLog.last.y
           /\ mouse[1].lastTime = mLog.last.t
           /\ mPrev.mouseX = mLog.prev.x
           /\ mPrev.mouseY = mLog.prev.y
           /\ mPrev.lastTime = mLog.prev.t
           /\ mEvents = 1 => (mPrev.mouseX = 0 /\ mPrev.mouseY = 0)

\* C20 witness: a stopped event at (200, 5) that followed an event at (5, 5)
\* dispatched after time 0; both its position and its time were stored
C20_Witness ==
    /\ mEvents >= 2
    /\ mStopped
    /\ mLog.prev = Point(5, 5, mPrev.lastTime)
    /\ mPrev.lastTime > 0
    /\ mLog.last = Point(200, 5, now)
    /\ mouse[1] = [lastTime |-> now, mouseX |-> 200, mouseY |-> 5]

====
